---- MODULE Spec2Model ----
(***************************************************************************)
(* Model of scripts/parse_benchmarks.py: the benchmark log scraper of      *)
(* len5-core.  A log text is a sequence of tokens: each of the ten marker  *)
(* strings the script searches for is one token (the marker text itself),  *)
(* every other token is a single character.  File names and identifiers    *)
(* are sequences of characters.  Positions are 0-based, as in Python.      *)
(***************************************************************************)
EXTENDS Integers, Sequences, FiniteSets, TLC

\* ------------------------------------------------------------------ bounds
MaxFiles == 2
MaxStatusLen == 4
MaxLen == 5

\* ----------------------------------------------------------- Python helpers
Min(a, b) == IF a < b THEN a ELSE b
Max(a, b) == IF a > b THEN a ELSE b

\* str.find(sub, start) for a sub that is one token: the first position
\* >= start holding it, -1 when there is none.
Find(stdout, sub, start) ==
  LET hits == { i \in start..(Len(stdout) - 1) : stdout[i + 1] = sub }
  IN  IF hits = {} THEN -1
      ELSE CHOOSE i \in hits : \A j \in hits : i <= j

\* s[a:b] with a >= 0; a negative b counts from the end.
Slice(s, a, b) ==
  LET e == IF b < 0 THEN Max(Len(s) + b, 0) ELSE Min(b, Len(s))
  IN  SubSeq(s, a + 1, e)

\* s[a:]
SliceFrom(s, a) == SubSeq(s, a + 1, Len(s))

RECURSIVE LStrip(_, _)
LStrip(s, chars) ==
  IF s # <<>> /\ Head(s) \in chars THEN LStrip(Tail(s), chars) ELSE s

RECURSIVE RStrip(_, _)
RStrip(s, chars) ==
  IF s # <<>> /\ s[Len(s)] \in chars THEN RStrip(SubSeq(s, 1, Len(s) - 1), chars) ELSE s

\* str.strip(' ')
StripSpaces(s) == RStrip(LStrip(s, {" "}), {" "})

\* Characters int() treats as white space and as digits.
Whitespace == {" ", "\n"}
DigitValue(c) == CASE c = "0" -> 0 [] c = "1" -> 1 [] c = "a" -> 10 [] OTHER -> 99

RECURSIVE DigitsValue(_, _)
DigitsValue(s, base) ==
  IF s = <<>> THEN 0
  ELSE DigitsValue(SubSeq(s, 1, Len(s) - 1), base) * base + DigitValue(s[Len(s)])

\* int(s, base): white space around the literal is dropped, then every
\* character must be a digit of the base; anything else is a ValueError.
IntParse(s, base) ==
  LET t == RStrip(LStrip(s, Whitespace), Whitespace)
  IN  IF t # <<>> /\ \A k \in 1..Len(t) : DigitValue(t[k]) < base
      THEN [ok |-> TRUE, val |-> DigitsValue(t, base)]
      ELSE [ok |-> FALSE, val |-> 0]

\* ------------------------------------------------------------------ markers
ExitMarker == "Program exit with code: "
InstrMarker == "retired instructions:"
CyclesMarker == "total CPU cycles: "
JumpsMarker == "- jumps: "
BranchesMarker == "- branches:"
LoadsMarker == "- loads:"
StoresMarker == "- stores:"
FetchesMarker == "- instruction fetches:"
WritesMarker == "- write requests: "
ReadsMarker == "- read requests:"

CounterMarkers ==
  { InstrMarker, CyclesMarker, JumpsMarker, BranchesMarker, LoadsMarker,
    StoresMarker, FetchesMarker, WritesMarker, ReadsMarker }

Markers == CounterMarkers \cup { ExitMarker }

\* A marker token without its last character: what is left of it when a
\* slice ends one character before the end of the text.
Truncated(marker) ==
  CASE marker = ExitMarker -> "Program exit with code:"
    [] marker = InstrMarker -> "retired instructions"
    [] marker = CyclesMarker -> "total CPU cycles:"
    [] marker = JumpsMarker -> "- jumps:"
    [] marker = BranchesMarker -> "- branches"
    [] marker = LoadsMarker -> "- loads"
    [] marker = StoresMarker -> "- stores"
    [] marker = FetchesMarker -> "- instruction fetches"
    [] marker = WritesMarker -> "- write requests:"
    [] marker = ReadsMarker -> "- read requests"

\* stdout[start_index:end_index] of a text, start_index being a token
\* boundary.  An end_index of -1 (terminator not found) ends the slice one
\* character before the end: the last token is dropped when it is a single
\* character and loses its last character when it is a marker.
TextSlice(stdout, start_index, end_index) ==
  IF end_index >= 0 THEN Slice(stdout, start_index, end_index)
  ELSE IF Len(stdout) <= start_index THEN <<>>
  ELSE LET last == stdout[Len(stdout)]
       IN  Slice(stdout, start_index, end_index)
             \o (IF last \in Markers THEN <<Truncated(last)>> ELSE <<>>)

\* The body shared by the ten parse_* functions: find the marker, cut the
\* text up to the terminator, strip spaces, convert, default on any miss.
ParseNumber(stdout, start_string, terminator, base, default) ==
  LET found == Find(stdout, start_string, 0)
      start_index == found + 1
      end_index == Find(stdout, terminator, start_index)
      number_str == StripSpaces(TextSlice(stdout, start_index, end_index))
      parsed == IntParse(number_str, base)
  IN  IF found = -1 THEN default
      ELSE IF parsed.ok THEN parsed.val ELSE default

\* Variant: the report start is never looked for.
get_report_start_origin(stdout) == 0

get_report_start(stdout) ==
  LET start_index == Find(stdout, ExitMarker, 0)
  IN  IF start_index = -1 THEN 0 ELSE start_index

\* Variant: an exit line that is missing or unreadable counts as code 0.
parse_status_default_zero(stdout) == ParseNumber(stdout, ExitMarker, "(", 16, 0)

parse_status(stdout) == ParseNumber(stdout, ExitMarker, "(", 16, 1)
parse_retired_instructions(stdout) == ParseNumber(stdout, InstrMarker, "\n", 10, 0)
parse_cycles(stdout) == ParseNumber(stdout, CyclesMarker, "\n", 10, 0)
parse_jumps(stdout) == ParseNumber(stdout, JumpsMarker, "(", 10, 0)
parse_branches(stdout) == ParseNumber(stdout, BranchesMarker, "(", 10, 0)
parse_loads(stdout) == ParseNumber(stdout, LoadsMarker, "(", 10, 0)
parse_stores(stdout) == ParseNumber(stdout, StoresMarker, "(", 10, 0)
parse_inst_fetches(stdout) == ParseNumber(stdout, FetchesMarker, "(", 10, 0)
parse_writes(stdout) == ParseNumber(stdout, WritesMarker, "(", 10, 0)
parse_reads(stdout) == ParseNumber(stdout, ReadsMarker, "(", 10, 0)

\* ------------------------------------------------------------------- table
\* instructions / cycles, kept exact as a fraction; the integer 0 of the
\* guarded branch is the fraction 0/1.
Ipc(instructions, cycles) ==
  IF cycles # 0 THEN [num |-> instructions, den |-> cycles]
  ELSE [num |-> 0, den |-> 1]

\* Variant: the write requests are left out of the total.
MemoryReqNoWrites(instr_fetches, write_req, read_req) == instr_fetches + read_req

MemoryReq(instr_fetches, write_req, read_req) == instr_fetches + write_req + read_req
BranchJump(jumps, branches) == jumps + branches
LoadStore(loads, stores) == loads + stores

\* The row update_table leaves under table[benchmark].
Results(output_log) ==
  LET instructions == parse_retired_instructions(output_log)
      cycles == parse_cycles(output_log)
      jumps == parse_jumps(output_log)
      branches == parse_branches(output_log)
      loads == parse_loads(output_log)
      stores == parse_stores(output_log)
      instr_fetches == parse_inst_fetches(output_log)
      read_req == parse_reads(output_log)
      write_req == parse_writes(output_log)
  IN  [ status |-> (parse_status(output_log) = 0),
        instructions |-> instructions,
        cycles |-> cycles,
        ipc |-> Ipc(instructions, cycles),
        jumps |-> jumps,
        branches |-> branches,
        branch_jump |-> BranchJump(jumps, branches),
        loads |-> loads,
        stores |-> stores,
        load_store |-> LoadStore(loads, stores),
        instr_fetches |-> instr_fetches,
        read_req |-> read_req,
        write_req |-> write_req,
        memory_req |-> MemoryReq(instr_fetches, write_req, read_req) ]

\* Variant: the table is rebuilt around the new row.
update_table_fresh(table, benchmark, output_log) ==
  << [benchmark |-> benchmark, results |-> Results(output_log)] >>

\* The table is a dict in insertion order: a sequence of (key, row) entries.
\* A key already present keeps its place and has every field overwritten.
update_table(table, benchmark, output_log) ==
  LET row == [benchmark |-> benchmark, results |-> Results(output_log)]
  IN  IF \E k \in 1..Len(table) : table[k].benchmark = benchmark
      THEN [k \in 1..Len(table) |->
              IF table[k].benchmark = benchmark THEN row ELSE table[k]]
      ELSE Append(table, row)

\* --------------------------------------------------------------- formatting
DigitChar(d) ==
  CASE d = 0 -> "0" [] d = 1 -> "1" [] d = 2 -> "2" [] d = 3 -> "3" [] d = 4 -> "4"
    [] d = 5 -> "5" [] d = 6 -> "6" [] d = 7 -> "7" [] d = 8 -> "8" [] d = 9 -> "9"

\* f"{n}" of a non-negative int: its decimal digits.
RECURSIVE Str(_)
Str(n) == IF n < 10 THEN <<DigitChar(n)>> ELSE Str(n \div 10) \o <<DigitChar(n % 10)>>

\* f"{b}" of a bool.
StrBool(b) == IF b THEN <<"T", "r", "u", "e">> ELSE <<"F", "a", "l", "s", "e">>

\* f"{x : .2f}" of a non-negative ratio: a space in the sign position, the
\* value rounded to hundredths, two decimals.
FormatIpc(ipc) ==
  LET hundredths == (200 * ipc.num + ipc.den) \div (2 * ipc.den)
  IN  <<" ">> \o Str(hundredths \div 100) \o <<".">>
        \o <<DigitChar((hundredths \div 10) % 10), DigitChar(hundredths % 10)>>

\* benchmark[:-4]
Identifier(benchmark) == Slice(benchmark, 0, -4)

BENCH_WHITE_LISTE ==
  { <<"c", "u", "b", "i", "c">>,
    <<"n", "b", "o", "d", "y">>,
    <<"n", "e", "t", "t", "l", "e", "-", "s", "h", "a", "2", "5", "6">>,
    <<"s", "t">>,
    <<"u", "d">> }

CsvHeader ==
  << "Benchmark", "Status", "Instructions", "Cycles", "IPC", "Jumps", "Branches",
     "Branch/Jump Instructions", "Loads", "Stores", "Load/Store Instructions",
     "Instruction fetches", "Write Requests", "Read Requests", "Memory Requests" >>

\* One data line of benchmarks.csv, as its comma-separated fields.
CsvRow(benchmark, results) ==
  << Identifier(benchmark),
     StrBool(results.status),
     Str(results.instructions),
     Str(results.cycles),
     FormatIpc(results.ipc),
     Str(results.jumps),
     Str(results.branches),
     Str(results.branch_jump),
     Str(results.loads),
     Str(results.stores),
     Str(results.load_store),
     Str(results.instr_fetches),
     Str(results.read_req),
     Str(results.write_req),
     Str(results.memory_req) >>

\* The rows the gating check looks at: not whitelisted, in table order.
RECURSIVE Gated(_)
Gated(table) ==
  IF table = <<>> THEN <<>>
  ELSE IF Identifier(Head(table).benchmark) \notin BENCH_WHITE_LISTE
       THEN <<Head(table)>> \o Gated(Tail(table))
       ELSE Gated(Tail(table))

\* Variant: the whitelist is not consulted.
GatingPassesAll(table) == \A k \in 1..Len(table) : table[k].results.status

\* all([s["status"] for b, s in stats.items() if b[:-4] not in BENCH_WHITE_LISTE])
GatingPasses(table) ==
  LET g == Gated(table) IN \A k \in 1..Len(g) : g[k].results.status

\* Variant: every failing row is listed, whitelisted or not.
RECURSIVE FailConcatAll(_)
FailConcatAll(table) ==
  IF table = <<>> THEN <<>>
  ELSE (IF ~Head(table).results.status
        THEN <<",", " ">> \o Identifier(Head(table).benchmark) ELSE <<>>)
         \o FailConcatAll(Tail(table))

\* The loop building benchmarks_fail, then benchmarks_fail[2:] + "." and the colour reset.
RECURSIVE FailConcat(_)
FailConcat(table) ==
  IF table = <<>> THEN <<>>
  ELSE LET b == Head(table).benchmark
           s == Head(table).results
       IN  (IF Identifier(b) \notin BENCH_WHITE_LISTE /\ ~s.status
            THEN <<",", " ">> \o Identifier(b) ELSE <<>>) \o FailConcat(Tail(table))

FailedTests(table) == SliceFrom(FailConcat(table), 2) \o <<".", "ESC[00m">>

\* ------------------------------------------------------------------- state
None == "None"

VARIABLES
  args,          \* the parsed command line: [s, p], None for a flag not given
  logsDirExists, \* whether <cwd>/<path>/logs/sim exists
  listing,       \* os.listdir of that directory: distinct file names, in its order
  fileText,      \* the text of each listed file
  outputDir,     \* <path>/output: "absent", "preexisting" or "created"
  csvFile,       \* the lines written to benchmarks.csv, <<>> while not written
  pc,            \* position of the script
  benchmarks,    \* the list returned by get_benchmarks
  i,             \* number of loop iterations done
  stats,         \* the table
  correctly_ex,  \* the success counter
  opened,        \* the files opened for reading so far
  stdout,        \* what was printed
  exitCode       \* <<>> while running, <<code>> once the process has exited

vars == << args, logsDirExists, listing, fileText, outputDir, csvFile, pc,
           benchmarks, i, stats, correctly_ex, opened, stdout, exitCode >>

\* Variant: only an empty flag is caught.
FalsyEmpty(a) == a = ""

\* `not args.x`: the flag is missing or empty.
Falsy(a) == a = None \/ a = ""

\* ------------------------------------------------------------------ inputs
StLog == <<"s", "t", ".", "l", "o", "g">>
UdTxt == <<"u", "d", ".", "t", "x", "t">>
AhaLog == <<"a", "h", "a", ".", "l", "o", "g">>
AhaTxt == <<"a", "h", "a", ".", "t", "x", "t">>
Cubic == <<"c", "u", "b", "i", "c">>
FileNames == { StLog, UdTxt, AhaLog, AhaTxt, Cubic }

\* A complete passing report, a failing report, a log with counters and no
\* exit line, a bare passing exit line, and a hexadecimal exit code.
SampleLogs ==
  { << "b", "o", "o", "t", "\n", InstrMarker, "1", "\n",
       ExitMarker, "0", " ", "(", "0", ")", "\n",
       InstrMarker, " ", "1", "1", "\n", CyclesMarker, "1", "0", "\n",
       JumpsMarker, "1", " ", "(", BranchesMarker, " ", "1", "0", " ", "(",
       LoadsMarker, " ", "1", " ", "(", StoresMarker, " ", "1", "1", "(",
       FetchesMarker, " ", "1", "1", " ", "(",
       ReadsMarker, " ", "1", "0", " ", "(", WritesMarker, "1", " ", "(", "\n" >>,
    << ExitMarker, "1", " ", "(", "\n", InstrMarker, " ", "1", "\n",
       CyclesMarker, "1", "1", "\n" >>,
    << InstrMarker, " ", "1", "0", "\n", WritesMarker, "1", "(" >>,
    << ExitMarker, "0", "(" >>,
    << ExitMarker, " ", "a", " ", "(", ReadsMarker, " ", "1", " ", "(" >> }

Seqs(S, n) == UNION { [1..k -> S] : k \in 0..n }

DistinctSeqs(S, n) == { q \in Seqs(S, n) : \A a, b \in 1..Len(q) : a # b => q[a] # q[b] }

StatusChars == { ExitMarker, "0", "1", "a", " ", "(", "\n" }
CounterChars(m) == { ExitMarker, m, "1", " ", "(", "\n" }

\* Exit lines over hexadecimal digits, spaces and terminators; and texts
\* around the exit marker and one counter marker.
ExtractLogs ==
  Seqs(StatusChars, MaxStatusLen)
    \cup UNION { Seqs(CounterChars(m), MaxLen) : m \in CounterMarkers }

ArgValues == { None, "", "run" }

InitControl ==
  /\ outputDir \in {"absent", "preexisting"}
  /\ csvFile = <<>>
  /\ pc = "check_suite"
  /\ benchmarks = <<>>
  /\ i = 0
  /\ stats = <<>>
  /\ correctly_ex = 0
  /\ opened = <<>>
  /\ stdout = <<>>
  /\ exitCode = <<>>

Init ==
  /\ args \in [s : ArgValues, p : ArgValues]
  /\ logsDirExists \in BOOLEAN
  /\ listing \in DistinctSeqs(FileNames, MaxFiles)
  /\ logsDirExists = FALSE => listing = <<>>
  /\ fileText \in [{ listing[k] : k \in 1..Len(listing) } -> SampleLogs]
  /\ InitControl

GoodConfig == ~Falsy(args.s) /\ ~Falsy(args.p) /\ logsDirExists

InitExtract ==
  /\ args \in [s : ArgValues, p : ArgValues]
  /\ logsDirExists \in BOOLEAN
  /\ listing \in { <<AhaLog>>, <<StLog>> }
  /\ logsDirExists = FALSE => listing = <<AhaLog>>
  /\ fileText \in [{ listing[1] } -> ExtractLogs]
  /\ InitControl
  /\ (~GoodConfig \/ listing = <<StLog>> \/ outputDir = "preexisting")
       => Len(fileText[listing[1]]) <= 1

\* ----------------------------------------------------------------- actions
\* table[benchmark]
Row(table, benchmark) ==
  table[CHOOSE k \in 1..Len(table) : table[k].benchmark = benchmark].results

\* Variant: only the passing rows are written.
CsvLinesPassing(table) ==
  LET ok(e) == e.results.status
      kept == SelectSeq(table, ok)
  IN  <<CsvHeader>> \o [k \in 1..Len(kept) |-> CsvRow(kept[k].benchmark, kept[k].results)]

\* The lines print_table_to_file_csv writes: the header, then one line per
\* table entry in table order.
CsvLines(table) ==
  <<CsvHeader>> \o [k \in 1..Len(table) |-> CsvRow(table[k].benchmark, table[k].results)]

\* os.makedirs unless the directory is there already.
MakeOutputDir(dir) == IF dir = "absent" THEN "created" ELSE dir

\* if (not args.s): usage, sys.exit(2)
CheckSuite ==
  /\ pc = "check_suite"
  /\ IF Falsy(args.s)
     THEN /\ stdout' = Append(stdout, [kind |-> "usage", flag |-> "s"])
          /\ exitCode' = <<2>>
          /\ pc' = "exited"
     ELSE /\ pc' = "check_path"
          /\ UNCHANGED << stdout, exitCode >>
  /\ UNCHANGED << args, logsDirExists, listing, fileText, outputDir, csvFile,
                  benchmarks, i, stats, correctly_ex, opened >>

\* if (not args.p): usage, sys.exit(2)
CheckPath ==
  /\ pc = "check_path"
  /\ IF Falsy(args.p)
     THEN /\ stdout' = Append(stdout, [kind |-> "usage", flag |-> "p"])
          /\ exitCode' = <<2>>
          /\ pc' = "exited"
     ELSE /\ pc' = "get_benchmarks"
          /\ UNCHANGED << stdout, exitCode >>
  /\ UNCHANGED << args, logsDirExists, listing, fileText, outputDir, csvFile,
                  benchmarks, i, stats, correctly_ex, opened >>

\* stats = init_table(); print the heading; benchmarks = get_benchmarks(dir)
GetBenchmarks ==
  /\ pc = "get_benchmarks"
  /\ stats' = <<>>
  /\ correctly_ex' = 0
  /\ IF ~logsDirExists
     THEN /\ stdout' = stdout \o << [kind |-> "heading"], [kind |-> "no_directory"] >>
          /\ exitCode' = <<2>>
          /\ pc' = "exited"
          /\ UNCHANGED benchmarks
     ELSE /\ stdout' = Append(stdout, [kind |-> "heading"])
          /\ benchmarks' = listing
          /\ pc' = "loop"
          /\ UNCHANGED exitCode
  /\ UNCHANGED << args, logsDirExists, listing, fileText, outputDir, csvFile,
                  i, opened >>

\* One iteration of the loop over the benchmarks: read the file, cut it at
\* the report start, update the table, print the benchmark's line.
ProcessLog ==
  /\ pc = "loop"
  /\ i < Len(benchmarks)
  /\ LET b == benchmarks[i + 1]
         raw == fileText[b]
         start_report == get_report_start(raw)
         output_log == SliceFrom(raw, start_report)
         table == update_table(stats, b, output_log)
         row == Row(table, b)
     IN  /\ opened' = Append(opened, b)
         /\ stats' = table
         /\ IF row.status
            THEN /\ stdout' = Append(stdout,
                      [kind |-> "line", n |-> i + 1, name |-> Identifier(b),
                       tag |-> "SUCCESS", ipc |-> FormatIpc(row.ipc)])
                 /\ correctly_ex' = correctly_ex + 1
            ELSE /\ stdout' = Append(stdout,
                      [kind |-> "line", n |-> i, name |-> Identifier(b),
                       tag |-> "FAILURE", ipc |-> FormatIpc(row.ipc)])
                 /\ UNCHANGED correctly_ex
  /\ i' = i + 1
  /\ UNCHANGED << args, logsDirExists, listing, fileText, outputDir, csvFile,
                  pc, benchmarks, exitCode >>

\* print(f"Correctly executed testbenches {correctly_ex} out of {len(stats)}.")
PrintSummary ==
  /\ pc = "loop"
  /\ i = Len(benchmarks)
  /\ stdout' = Append(stdout,
        [kind |-> "count", correct |-> correctly_ex, total |-> Len(stats)])
  /\ pc' = "gating"
  /\ UNCHANGED << args, logsDirExists, listing, fileText, outputDir, csvFile,
                  benchmarks, i, stats, correctly_ex, opened, exitCode >>

\* The whitelist-aware check: list the failures and exit 1, or go on.
GatingCheck ==
  /\ pc = "gating"
  /\ IF ~GatingPasses(stats)
     THEN /\ stdout' = Append(stdout, [kind |-> "failed", text |-> FailedTests(stats)])
          /\ exitCode' = <<1>>
          /\ pc' = "exited"
     ELSE /\ stdout' = Append(stdout, [kind |-> "saving"])
          /\ pc' = "csv"
          /\ UNCHANGED exitCode
  /\ UNCHANGED << args, logsDirExists, listing, fileText, outputDir, csvFile,
                  benchmarks, i, stats, correctly_ex, opened >>

\* print_table_to_file_csv(stats, PATH), then the script ends.
PrintTableToFileCsv ==
  /\ pc = "csv"
  /\ outputDir' = MakeOutputDir(outputDir)
  /\ csvFile' = CsvLines(stats)
  /\ exitCode' = <<0>>
  /\ pc' = "exited"
  /\ UNCHANGED << args, logsDirExists, listing, fileText, benchmarks, i, stats,
                  correctly_ex, opened, stdout >>

Next ==
  \/ CheckSuite
  \/ CheckPath
  \/ GetBenchmarks
  \/ ProcessLog
  \/ PrintSummary
  \/ GatingCheck
  \/ PrintTableToFileCsv

Spec == Init /\ [][Next]_vars

SpecExtract == InitExtract /\ [][Next]_vars

\* ------------------------------------------------------- claim vocabulary
Exited == pc = "exited"
Reporting == pc \in {"gating", "csv"} \/ (Exited /\ exitCode # <<2>>)

Whitelisted(benchmark) ==
  SubSeq(benchmark, 1, Len(benchmark) - 4) \in BENCH_WHITE_LISTE

\* Table positions of the rows that fail and are not whitelisted.
FailingGated == { k \in 1..Len(stats) :
                    ~Whitelisted(stats[k].benchmark) /\ ~stats[k].results.status }
FailingWhitelisted == { k \in 1..Len(stats) :
                    Whitelisted(stats[k].benchmark) /\ ~stats[k].results.status }

Contains(text, tok) == \E j \in 1..Len(text) : text[j] = tok
FirstOf(S) == CHOOSE j \in S : \A h \in S : j <= h

CounterField(r, m) ==
  CASE m = InstrMarker -> r.instructions
    [] m = CyclesMarker -> r.cycles
    [] m = JumpsMarker -> r.jumps
    [] m = BranchesMarker -> r.branches
    [] m = LoadsMarker -> r.loads
    [] m = StoresMarker -> r.stores
    [] m = FetchesMarker -> r.instr_fetches
    [] m = WritesMarker -> r.write_req
    [] m = ReadsMarker -> r.read_req

\* The counter of marker m as its parse function reads it off `text`.
ParseAt(m, text) ==
  CASE m = InstrMarker -> parse_retired_instructions(text)
    [] m = CyclesMarker -> parse_cycles(text)
    [] m = JumpsMarker -> parse_jumps(text)
    [] m = BranchesMarker -> parse_branches(text)
    [] m = LoadsMarker -> parse_loads(text)
    [] m = StoresMarker -> parse_stores(text)
    [] m = FetchesMarker -> parse_inst_fetches(text)
    [] m = WritesMarker -> parse_writes(text)
    [] m = ReadsMarker -> parse_reads(text)

\* ---------------------------------------------------------------------- C1
\* C1: once every listed log has been aggregated and the run has ended, it
\* ended with exit code 1 and no CSV written exactly when some row that is not
\* whitelisted has status false; otherwise the CSV is written and the code is 0.
C1_GatingDecidesExit ==
  (Exited /\ exitCode # <<2>>) =>
    /\ Len(stats) = Len(listing)
    /\ IF FailingGated # {}
       THEN exitCode = <<1>> /\ csvFile = <<>>
       ELSE exitCode = <<0>> /\ csvFile # <<>>

\* A run stopped by a non-whitelisted failure although a whitelisted
\* benchmark failed as well.
C1_Witness ==
  /\ Exited /\ exitCode = <<1>> /\ csvFile = <<>>
  /\ Len(stats) = 2
  /\ FailingGated # {} /\ FailingWhitelisted # {}

\* ---------------------------------------------------------------------- C2
\* C2: when every failing row is whitelisted the run exits 0 and the CSV has,
\* after the header, one line per log file read, in table (listing) order,
\* the lines of the failing whitelisted benchmarks included.
C2_WhitelistedFailuresPass ==
  (Exited /\ exitCode # <<2>> /\ FailingGated = {}) =>
    /\ exitCode = <<0>>
    /\ Len(csvFile) = 1 + Len(opened)
    /\ opened = listing
    /\ \A k \in 1..Len(listing) :
         /\ stats[k].benchmark = listing[k]
         /\ csvFile[k + 1][1] = SubSeq(listing[k], 1, Len(listing[k]) - 4)
         /\ csvFile[k + 1][2] = StrBool(stats[k].results.status)

\* Two logs, the only failure a whitelisted one, and its line is in the CSV.
C2_Witness ==
  /\ Exited /\ exitCode = <<0>>
  /\ Len(listing) = 2 /\ Len(csvFile) = 3
  /\ FailingWhitelisted # {}
  /\ \E k \in FailingWhitelisted : csvFile[k + 1][2] = StrBool(FALSE)

\* ---------------------------------------------------------------------- C3
\* C3 as stated: a log without the exit marker gives a row with status false
\* and all nine counters 0.
C3_NoMarkerAllZero ==
  \A k \in 1..Len(stats) :
    ~Contains(fileText[stats[k].benchmark], ExitMarker) =>
      /\ ~stats[k].results.status
      /\ \A m \in CounterMarkers : CounterField(stats[k].results, m) = 0

\* C3 amended: a log without the exit marker gives a row with status false;
\* each counter is read off the whole text, so it is 0 for every counter
\* whose own marker is absent from the log.
C3_NoMarkerStatusFalse ==
  \A k \in 1..Len(stats) :
    LET raw == fileText[stats[k].benchmark]
        r == stats[k].results
    IN  ~Contains(raw, ExitMarker) =>
          /\ ~r.status
          /\ \A m \in CounterMarkers :
               /\ CounterField(r, m) = ParseAt(m, raw)
               /\ ~Contains(raw, m) => CounterField(r, m) = 0

\* A log without the exit marker whose row has a counter that is not 0.
C3_Witness ==
  \E k \in 1..Len(stats) :
    /\ ~Contains(fileText[stats[k].benchmark], ExitMarker)
    /\ ~stats[k].results.status
    /\ \E m \in CounterMarkers : CounterField(stats[k].results, m) > 0

\* ---------------------------------------------------------------------- C4
ColumnOf(name) == CHOOSE c \in 1..Len(CsvHeader) : CsvHeader[c] = name
Field(k, name) == csvFile[k + 1][ColumnOf(name)]

\* C4: every data line of the written CSV has 15 fields and the field under
\* each header column is the row's metric of that name; the field under
\* "Write Requests" is write_req and the one under "Read Requests" is read_req.
C4_ColumnsMatchHeader ==
  csvFile # <<>> =>
    /\ Len(csvFile[1]) = 15
    /\ \A k \in 1..Len(stats) :
         LET r == stats[k].results
         IN  /\ Len(csvFile[k + 1]) = 15
             /\ Field(k, "Benchmark")
                  = SubSeq(stats[k].benchmark, 1, Len(stats[k].benchmark) - 4)
             /\ Field(k, "Status") = StrBool(r.status)
             /\ Field(k, "IPC") = FormatIpc(r.ipc)
             /\ Field(k, "Instructions") = Str(r.instructions)
             /\ Field(k, "Cycles") = Str(r.cycles)
             /\ Field(k, "Jumps") = Str(r.jumps)
             /\ Field(k, "Branches") = Str(r.branches)
             /\ Field(k, "Branch/Jump Instructions") = Str(r.branch_jump)
             /\ Field(k, "Loads") = Str(r.loads)
             /\ Field(k, "Stores") = Str(r.stores)
             /\ Field(k, "Load/Store Instructions") = Str(r.load_store)
             /\ Field(k, "Instruction fetches") = Str(r.instr_fetches)
             /\ Field(k, "Write Requests") = Str(r.write_req)
             /\ Field(k, "Read Requests") = Str(r.read_req)
             /\ Field(k, "Memory Requests") = Str(r.memory_req)

\* ---------------------------------------------------------------------- C5
\* The exit code text as the claim cuts it: from the first exit marker to
\* the next "(".  Where no "(" follows, the claim names no text: `strict`
\* takes that as a failure to parse, `lenient` takes the rest of the log.
ClaimedStatus(raw, lenient) ==
  LET marks == { j \in 1..Len(raw) : raw[j] = ExitMarker }
      a == FirstOf(marks)
      parens == { j \in (a + 1)..Len(raw) : raw[j] = "(" }
      text == IF parens # {} THEN SubSeq(raw, a + 1, FirstOf(parens) - 1)
              ELSE SubSeq(raw, a + 1, Len(raw))
      parsed == IntParse(StripSpaces(text), 16)
  IN  /\ marks # {}
      /\ parens # {} \/ lenient
      /\ parsed.ok /\ parsed.val = 0

\* C5: the row's status is true exactly when the text between the first exit
\* marker and the next "(" parses, base 16, to 0 (under either reading of a
\* log in which no "(" follows the marker).
C5_StatusIffHexZero ==
  \A k \in 1..Len(stats) :
    LET raw == fileText[stats[k].benchmark]
    IN  \/ stats[k].results.status = ClaimedStatus(raw, FALSE)
        \/ stats[k].results.status = ClaimedStatus(raw, TRUE)

\* ---------------------------------------------------------------------- C6
\* C6: every row of the table has memory_req = instr_fetches + read_req +
\* write_req, branch/jump = jumps + branches, load/store = loads + stores,
\* and ipc = 0 whenever cycles = 0.
C6_DerivedFields ==
  \A k \in 1..Len(stats) :
    LET r == stats[k].results
    IN  /\ r.memory_req = r.instr_fetches + r.read_req + r.write_req
        /\ r.branch_jump = r.jumps + r.branches
        /\ r.load_store = r.loads + r.stores
        /\ r.cycles = 0 => r.ipc.num = 0

\* A table with a row whose counters are all positive and a row with
\* instructions but no cycles.
C6_Witness ==
  /\ \E k \in 1..Len(stats) :
       LET r == stats[k].results
       IN  /\ r.instr_fetches > 0 /\ r.read_req > 0 /\ r.write_req > 0
           /\ r.jumps > 0 /\ r.branches > 0 /\ r.loads > 0 /\ r.stores > 0
           /\ r.cycles > 0 /\ r.ipc.num > 0
  /\ \E k \in 1..Len(stats) :
       stats[k].results.cycles = 0 /\ stats[k].results.instructions > 0

\* ---------------------------------------------------------------------- C7
\* C7: when the raw log holds the exit marker, the status is read at its
\* first occurrence, and each counter is read at the first occurrence of its
\* marker at or after that anchor: 0 when there is none there, whatever
\* precedes the anchor, and never the value of a later occurrence.
C7_ExtractFromAnchor ==
  \A k \in 1..Len(stats) :
    LET raw == fileText[stats[k].benchmark]
        r == stats[k].results
        anchors == { j \in 1..Len(raw) : raw[j] = ExitMarker }
    IN  anchors # {} =>
          /\ r.status = (parse_status(SubSeq(raw, FirstOf(anchors), Len(raw))) = 0)
          /\ \A m \in CounterMarkers :
               LET occ == { j \in FirstOf(anchors)..Len(raw) : raw[j] = m }
               IN  CounterField(r, m) =
                     IF occ = {} THEN 0
                     ELSE ParseAt(m, SubSeq(raw, FirstOf(occ), Len(raw)))

\* A log whose counter marker occurs twice after the anchor: the first
\* occurrence yields 0 and the second alone would yield a positive value.
C7_Witness ==
  \E k \in 1..Len(stats) : \E m \in CounterMarkers :
    LET raw == fileText[stats[k].benchmark]
        anchors == { j \in 1..Len(raw) : raw[j] = ExitMarker }
        occ == { j \in 1..Len(raw) : raw[j] = m }
    IN  /\ anchors # {}
        /\ \E j, h \in occ :
             /\ FirstOf(anchors) < j /\ j < h
             /\ ParseAt(m, SubSeq(raw, h, Len(raw))) > 0
        /\ CounterField(stats[k].results, m) = 0

\* ---------------------------------------------------------------------- C8
RECURSIVE Join(_)
Join(ids) ==
  IF ids = <<>> THEN <<>>
  ELSE IF Len(ids) = 1 THEN ids[1]
  ELSE ids[1] \o <<",", " ">> \o Join(Tail(ids))

\* Identifiers of the failing rows that are not whitelisted, in table order.
RECURSIVE IdsFrom(_)
IdsFrom(k) ==
  IF k > Len(stats) THEN <<>>
  ELSE (IF k \in FailingGated
        THEN << SubSeq(stats[k].benchmark, 1, Len(stats[k].benchmark) - 4) >>
        ELSE <<>>) \o IdsFrom(k + 1)

\* C8: on a gating failure the printed list is the identifiers of the rows
\* that failed and are not whitelisted, one per such row, in table order,
\* joined by ", " (and closed by "." and the colour reset).
C8_FailureList ==
  exitCode = <<1>> =>
    /\ stdout[Len(stdout)].kind = "failed"
    /\ stdout[Len(stdout)].text = Join(IdsFrom(1)) \o <<".", "ESC[00m">>

\* A gating failure that lists two identifiers.
C8_Witness ==
  /\ exitCode = <<1>>
  /\ Len(IdsFrom(1)) = 2
  /\ stdout[Len(stdout)].kind = "failed"

\* ---------------------------------------------------------------------- C9
\* C9: with the suite flag missing, the path flag missing or the log
\* directory absent, no log file is ever opened, no table row is created, the
\* output directory and the CSV are not created, and the run ends with code 2.
C9_ConfigurationError ==
  (args.s = None \/ args.p = None \/ ~logsDirExists) =>
    /\ opened = <<>>
    /\ stats = <<>>
    /\ outputDir # "created"
    /\ csvFile = <<>>
    /\ Exited => exitCode = <<2>>

\* The path flag is missing while the suite flag is given and log files
\* exist: the run has ended with code 2.
C9_Witness ==
  /\ Exited /\ exitCode = <<2>>
  /\ args.s = "run" /\ args.p = None
  /\ logsDirExists /\ Len(listing) = 2
  /\ opened = <<>> /\ outputDir = "absent"

\* --------------------------------------------------------------------- C10
Aggregated ==
  /\ Len(stats) = i
  /\ \A k \in 1..Len(stats) : stats[k].benchmark = benchmarks[k]

ReportingComplete ==
  Reporting =>
    /\ Len(stats) = Len(listing)
    /\ \A b \in { listing[k] : k \in 1..Len(listing) } :
         Cardinality({ k \in 1..Len(stats) : stats[k].benchmark = b }) = 1
    /\ \E n \in 1..Len(stdout) :
         stdout[n].kind = "count" /\ stdout[n].total = Len(listing)

RowsKept ==
  /\ Len(stats') >= Len(stats)
  /\ \A k \in 1..Len(stats) : stats'[k].benchmark = stats[k].benchmark

\* C10: after k logs the table holds one row for each of the first k listed
\* benchmarks, no step removes a row, and when reporting begins every listed
\* benchmark has exactly one row and the summary total is the number of files.
C10_TableOnlyGrows ==
  /\ [](Aggregated /\ ReportingComplete)
  /\ [][RowsKept]_vars

\* Reporting has begun on a table of two rows.
C10_Witness ==
  /\ pc = "gating"
  /\ Len(stats) = 2 /\ Len(listing) = 2
  /\ stdout[Len(stdout)].kind = "count" /\ stdout[Len(stdout)].total = 2

====
